---- MODULE Spec2Model ----
(***************************************************************************)
(* Model of the CPLUS plugin's model layer (models/base.py) and settings   *)
(* manager (conf.py).                                                      *)
(*                                                                         *)
(*   SpecModel    : one ImplementationModel and the operations on it       *)
(*   SpecEq       : the __eq__ of every model entity kind                  *)
(*   SpecScenario : the scenario part of the settings manager              *)
(*   SpecNcs      : its NCS pathway part and initialize_default_settings   *)
(*   SpecPriority : its priority layer part                                *)
(*   SpecScope    : the qgis_settings scope, step by step                  *)
(*   SpecCarbon   : NcsPathway.add_carbon_path                             *)
(***************************************************************************)
EXTENDS Integers, Sequences, FiniteSets, TLC

VARIABLES
    pc,        \* "new" | "ready" | "failed": the ImplementationModel's life
    im,        \* the ImplementationModel's fields
    last,      \* the last call on the model: op, arg, result, pathways before
    repeated,  \* the last two calls were add_ncs_pathway of the same pathway
    eqCall,    \* an __eq__ evaluation: kind, operands, whether done, result
    settings,  \* the QgsSettings store: absolute key (a sequence) -> value
    slast,     \* the last scenario call of the settings manager: op, arg, result
    emitted,   \* the signals the last settings-manager call emitted
    catalog,   \* DEFAULT_NCS_PATHWAYS, the dicts of the built-in pathways
    nlast,     \* the last NCS pathway call of the settings manager
    plast,     \* the last priority layer call of the settings manager
    groupStack, \* QgsSettings object -> its stack of groups (beginGroup/endGroup)
    scopes,    \* the qgis_settings scopes entered and not yet left, innermost last
    flow,      \* "idle" | "body" | "return" | "raise": how the operation proceeds
    groupBefore, \* groupStack when the running operation started
    deepest,   \* the deepest nesting of scopes the running operation reached
    carbon,    \* the carbon_paths of one NcsPathway
    clast      \* the last add_carbon_path call: argument, result, list before

vars == <<pc, im, last, repeated, eqCall, settings, slast, emitted, catalog,
          nlast, plast, groupStack, scopes, flow, groupBefore, deepest,
          carbon, clast>>

ncsVars == <<catalog, nlast>>
priorityVars == <<plast>>
scopeVars == <<groupStack, scopes, flow, groupBefore, deepest>>
carbonVars == <<carbon, clast>>

(***************************************************************************)
(* Bounds                                                                  *)
(***************************************************************************)
\* add_ncs_pathway is not offered once the collection holds this many.
MaxPathways == 3
\* the longest pathways argument given to the constructor
MaxInitPathways == 2
\* save_scenario is not offered once this many scenarios are stored.
MaxScenarios == 2
\* the deepest nesting of qgis_settings scopes in one operation
MaxScopeDepth == 2
\* add_carbon_path is not offered once carbon_paths is longer than this.
MaxCarbonPaths == 4

(***************************************************************************)
(* The environment: the file system and the layers QGIS makes of files.    *)
(***************************************************************************)
\* os.path.exists
ExistingPaths == {"model.tif", "ncs.tif", "carbon.tif", "zones.shp", "corrupt.tif"}
PathExists(p) == p \in ExistingPaths

\* QgsRasterLayer(path).isValid()
RasterIsValid(p) == p \in {"model.tif", "ncs.tif", "carbon.tif"}
\* QgsVectorLayer(path).isValid()
VectorIsValid(p) == p \in {"zones.shp"}

LayerTypes == {"RASTER", "VECTOR", "UNDEFINED"}

NoLayer == [kind |-> "None", path |-> "", valid |-> FALSE]

\* LayerModelComponent.to_map_layer: None unless the path exists and the
\* layer type is already RASTER or VECTOR.
ToMapLayer(c) ==
    IF ~PathExists(c.path) THEN NoLayer
    ELSE IF c.layer_type = "RASTER"
         THEN [kind |-> "QgsRasterLayer", path |-> c.path, valid |-> RasterIsValid(c.path)]
    ELSE IF c.layer_type = "VECTOR"
         THEN [kind |-> "QgsVectorLayer", path |-> c.path, valid |-> VectorIsValid(c.path)]
    ELSE NoLayer

\* LayerModelComponent.update_layer_type: the layer type after the call.
UpdateLayerType(c) ==
    LET layer == ToMapLayer(c) IN
    IF layer = NoLayer THEN c.layer_type
    ELSE IF ~layer.valid THEN c.layer_type
    ELSE IF layer.kind = "QgsRasterLayer" THEN "RASTER"
    ELSE IF layer.kind = "QgsVectorLayer" THEN "VECTOR"
    ELSE c.layer_type

\* LayerModelComponent.is_valid
LayerComponentIsValid(c) ==
    LET layer == ToMapLayer(c) IN
    IF layer = NoLayer THEN FALSE ELSE layer.valid

(***************************************************************************)
(* NcsPathway                                                              *)
(***************************************************************************)
Range(s) == {s[i] : i \in 1..Len(s)}

\* NcsPathway.is_carbon_valid
IsCarbonValid(ncs) == \A cp \in Range(ncs.carbon_paths) : RasterIsValid(cp)

\* NcsPathway.is_valid
NcsIsValid(ncs) ==
    IF ~LayerComponentIsValid(ncs) THEN FALSE
    ELSE IF ~IsCarbonValid(ncs) THEN FALSE
    ELSE TRUE

\* uuid.UUID values and str(uuid): the model's collections compare the
\* string forms.
UUID(hex) == [hex |-> hex]
Str(u) == u.hex

Ncs(u, n, p, t, cps) ==
    [uuid |-> UUID(u), name |-> n, description |-> "", path |-> p,
     layer_type |-> UpdateLayerType([path |-> p, layer_type |-> t]),
     user_defined |-> FALSE, carbon_paths |-> cps, carbon_coefficient |-> 0]

\* The pathways offered to the model: valid ones (two of them sharing a
\* uuid) and invalid ones (a missing file, an invalid carbon layer, an
\* undefined layer type).
NcsPool ==
    { Ncs("u1", "Agroforestry", "ncs.tif", "RASTER", <<>>),
      Ncs("u1", "Agroforestry v2", "zones.shp", "VECTOR", <<>>),
      Ncs("u2", "Woodlot", "ncs.tif", "RASTER", <<"carbon.tif">>),
      Ncs("u3", "Fire", "ncs.tif", "RASTER", <<>>),
      Ncs("u2", "Missing", "missing.tif", "RASTER", <<>>),
      Ncs("u3", "Bad carbon", "ncs.tif", "RASTER", <<"corrupt.tif">>),
      Ncs("u4", "Untyped", "ncs.tif", "UNDEFINED", <<>>) }

\* The paths given to the model: none (which does not exist), a raster file,
\* a vector file.
ModelPaths == {"", "model.tif", "zones.shp"}

\* The priority_layers given to the constructor.
PriorityLayerLists ==
    { <<>>,
      <<[name |-> "Biodiversity", path |-> "carbon.tif"]>>,
      <<[name |-> "Biodiversity", path |-> "carbon.tif"],
        [name |-> "Policy", path |-> "corrupt.tif"]>> }

\* Sequences over S of length k, and of length at most n.
RECURSIVE SeqsOfLen(_, _)
SeqsOfLen(S, k) ==
    IF k = 0 THEN {<<>>}
    ELSE {Append(s, x) : s \in SeqsOfLen(S, k - 1), x \in S}
SeqUpTo(S, n) == UNION {SeqsOfLen(S, k) : k \in 0..n}

\* The uuid strings given to remove_ncs_pathway ("u9" is held by no pathway).
UuidStrings == {"u1", "u2", "u3", "u4", "u9"}

(***************************************************************************)
(* ImplementationModel                                                     *)
(***************************************************************************)
\* uuids = [str(p.uuid) for p in self.pathways]
UuidsOf(pathways) == [i \in 1..Len(pathways) |-> Str(pathways[i].uuid)]

\* len(set(uuids)) != len(uuids)
HasDuplicates(uuids) == Cardinality(Range(uuids)) # Len(uuids)

\* __post_init__ without its duplicate check.
PostInitNoDuplicateCheck(m) ==
    LET typed == [m EXCEPT !.layer_type = UpdateLayerType(m)] IN
    IF ToMapLayer(typed) # NoLayer /\ Len(typed.pathways) > 0
    THEN [raised |-> "", model |-> [typed EXCEPT !.pathways = <<>>]]
    ELSE [raised |-> "", model |-> typed]

\* __post_init__ resetting the pathways of a model with a layer before it
\* looks for duplicates.
PostInitResetFirst(m) ==
    LET typed == [m EXCEPT !.layer_type = UpdateLayerType(m)]
        reset == IF ToMapLayer(typed) # NoLayer /\ Len(typed.pathways) > 0
                 THEN [typed EXCEPT !.pathways = <<>>] ELSE typed
    IN  IF HasDuplicates(UuidsOf(reset.pathways))
        THEN [raised |-> "ValueError", model |-> reset]
        ELSE [raised |-> "", model |-> reset]

\* ImplementationModel.__post_init__ on the constructor's arguments: the
\* raised error ("" for none) and the model it leaves.
PostInit(m) ==
    LET typed == [m EXCEPT !.layer_type = UpdateLayerType(m)] IN
    IF HasDuplicates(UuidsOf(typed.pathways))
    THEN [raised |-> "ValueError", model |-> typed]
    ELSE IF ToMapLayer(typed) # NoLayer /\ Len(typed.pathways) > 0
    THEN [raised |-> "", model |-> [typed EXCEPT !.pathways = <<>>]]
    ELSE [raised |-> "", model |-> typed]

\* ImplementationModel.pathway_by_uuid: the matching pathways, in order
\* (the method returns the first, or None when there is none).
PathwaysByUuid(m, pathway_uuid) ==
    SelectSeq(m.pathways, LAMBDA p : Str(p.uuid) = pathway_uuid)

\* ImplementationModel.contains_pathway
ContainsPathway(m, pathway_uuid) == Len(PathwaysByUuid(m, pathway_uuid)) # 0

\* add_ncs_pathway without the contains_pathway check.
AddNcsPathwayNoContains(m, ncs) ==
    IF ~NcsIsValid(ncs) THEN [result |-> FALSE, model |-> m]
    ELSE [result |-> TRUE, model |-> [m EXCEPT !.pathways = Append(@, ncs)]]

\* add_ncs_pathway without the is_valid check.
AddNcsPathwayNoValidity(m, ncs) ==
    IF ContainsPathway(m, Str(ncs.uuid)) THEN [result |-> FALSE, model |-> m]
    ELSE [result |-> TRUE, model |-> [m EXCEPT !.pathways = Append(@, ncs)]]

\* ImplementationModel.add_ncs_pathway: the returned value and the model.
AddNcsPathway(m, ncs) ==
    IF ~NcsIsValid(ncs) THEN [result |-> FALSE, model |-> m]
    ELSE IF ContainsPathway(m, Str(ncs.uuid)) THEN [result |-> FALSE, model |-> m]
    ELSE [result |-> TRUE, model |-> [m EXCEPT !.pathways = Append(@, ncs)]]

\* self.pathways.pop(rem_idx)
Pop(s, idx) == SubSeq(s, 1, idx - 1) \o SubSeq(s, idx + 1, Len(s))

\* remove_ncs_pathway popping the last pathway (pop() without the index).
RemoveNcsPathwayPopLast(m, pathway_uuid) ==
    LET idxs == {i \in 1..Len(m.pathways) : Str(m.pathways[i].uuid) = pathway_uuid} IN
    IF idxs = {} THEN [result |-> FALSE, model |-> m]
    ELSE [result |-> TRUE, model |-> [m EXCEPT !.pathways = Pop(@, Len(@))]]

\* ImplementationModel.remove_ncs_pathway: the returned value and the model.
RemoveNcsPathway(m, pathway_uuid) ==
    LET idxs == {i \in 1..Len(m.pathways) : Str(m.pathways[i].uuid) = pathway_uuid} IN
    IF idxs = {} THEN [result |-> FALSE, model |-> m]
    ELSE LET rem_idx == CHOOSE i \in idxs : \A j \in idxs : i <= j IN
         [result |-> TRUE, model |-> [m EXCEPT !.pathways = Pop(@, rem_idx)]]

\* ImplementationModel.clear_layer
ClearLayer(m) == [m EXCEPT !.path = ""]

\* Assignment to the path attribute (a plain dataclass field).
SetPath(m, p) == [m EXCEPT !.path = p]

\* ImplementationModel.is_pwls_valid
IsPwlsValid(m) == \A pl \in Range(m.priority_layers) : RasterIsValid(pl.path)

\* is_valid without the priority layers check.
ImIsValidNoPwls(m) ==
    IF ToMapLayer(m) # NoLayer THEN LayerComponentIsValid(m)
    ELSE IF Len(m.pathways) = 0 THEN FALSE
    ELSE TRUE

\* ImplementationModel.is_valid
ImIsValid(m) ==
    IF ToMapLayer(m) # NoLayer THEN LayerComponentIsValid(m)
    ELSE IF Len(m.pathways) = 0 THEN FALSE
    ELSE IF ~IsPwlsValid(m) THEN FALSE
    ELSE TRUE

\* The fields of a model before its construction (the defaults).
NewModel ==
    [uuid |-> UUID("m1"), name |-> "Model", description |-> "",
     path |-> "", layer_type |-> "UNDEFINED", user_defined |-> FALSE,
     pathways |-> <<>>, priority_layers |-> <<>>]

(***************************************************************************)
(* Equality of the model entities                                          *)
(***************************************************************************)
\* BaseModelComponent.__eq__
BaseEq(a, b) ==
    IF a.uuid # b.uuid THEN FALSE
    ELSE IF a.name # b.name THEN FALSE
    ELSE IF a.description # b.description THEN FALSE
    ELSE TRUE

\* The __eq__ the dataclass decorator would give LayerModelComponent if the
\* class did not define its own: every field is compared.
LayerEqDataclassDefault(a, b) ==
    /\ a.uuid = b.uuid /\ a.name = b.name /\ a.description = b.description
    /\ a.path = b.path /\ a.layer_type = b.layer_type
    /\ a.user_defined = b.user_defined

\* LayerModelComponent.__eq__
LayerEq(a, b) == BaseEq(a, b)

\* NcsPathway.__eq__
NcsEq(a, b) ==
    IF ~LayerEq(a, b) THEN FALSE
    ELSE IF a.path # b.path THEN FALSE
    ELSE IF a.layer_type # b.layer_type THEN FALSE
    ELSE IF a.user_defined # b.user_defined THEN FALSE
    ELSE TRUE

\* Equality of two lists of pathways: element by element, with
\* NcsPathway.__eq__.
PathwaysEq(s, t) ==
    /\ Len(s) = Len(t)
    /\ \A i \in 1..Len(s) : NcsEq(s[i], t[i])

\* ImplementationModel defines no __eq__ of its own, so the dataclass
\* decorator generates one comparing every field.
ImplementationModelEq(a, b) ==
    /\ a.uuid = b.uuid /\ a.name = b.name /\ a.description = b.description
    /\ a.path = b.path /\ a.layer_type = b.layer_type
    /\ a.user_defined = b.user_defined
    /\ PathwaysEq(a.pathways, b.pathways)
    /\ a.priority_layers = b.priority_layers

\* PriorityLayer: the dataclass-generated __eq__ over every field.
PriorityLayerEq(a, b) ==
    /\ a.uuid = b.uuid /\ a.name = b.name /\ a.description = b.description
    /\ a.groups = b.groups /\ a.selected = b.selected /\ a.path = b.path

\* SpatialExtent: the dataclass-generated __eq__ (bbox).
SpatialExtentEq(a, b) == a.bbox = b.bbox

\* Equality of two lists of implementation models.
ModelsEq(s, t) ==
    /\ Len(s) = Len(t)
    /\ \A i \in 1..Len(s) : ImplementationModelEq(s[i], t[i])

\* Scenario: the dataclass-generated __eq__ over every field.
ScenarioEq(a, b) ==
    /\ a.uuid = b.uuid /\ a.name = b.name /\ a.description = b.description
    /\ SpatialExtentEq(a.extent, b.extent)
    /\ ModelsEq(a.models, b.models)
    /\ a.priority_layer_groups = b.priority_layer_groups
    /\ a.state = b.state

EntityKinds ==
    {"BaseModelComponent", "LayerModelComponent", "NcsPathway",
     "ImplementationModel", "PriorityLayer", "Scenario"}

\* a == b for two instances of the same kind.
EntityEq(kind, a, b) ==
    CASE kind = "BaseModelComponent" -> BaseEq(a, b)
      [] kind = "LayerModelComponent" -> LayerEq(a, b)
      [] kind = "NcsPathway" -> NcsEq(a, b)
      [] kind = "ImplementationModel" -> ImplementationModelEq(a, b)
      [] kind = "PriorityLayer" -> PriorityLayerEq(a, b)
      [] kind = "Scenario" -> ScenarioEq(a, b)

\* An entity with every field of every kind; a kind reads its own fields.
BlankEntity ==
    [uuid |-> UUID(""), name |-> "", description |-> "",
     path |-> "", layer_type |-> "UNDEFINED", user_defined |-> FALSE,
     carbon_paths |-> <<>>, carbon_coefficient |-> 0,
     pathways |-> <<>>, priority_layers |-> <<>>,
     groups |-> <<>>, selected |-> FALSE,
     extent |-> [bbox |-> <<0, 0, 0, 0>>], models |-> <<>>,
     priority_layer_groups |-> <<>>, state |-> "IDLE"]

Identities ==
    {[uuid |-> UUID(u), name |-> n, description |-> d] :
        u \in {"e1", "e2"}, n \in {"Alpha", "Beta"}, d \in {"", "text"}}

LayerVariants ==
    { BlankEntity,
      [BlankEntity EXCEPT !.path = "ncs.tif"],
      [BlankEntity EXCEPT !.layer_type = "RASTER"],
      [BlankEntity EXCEPT !.user_defined = TRUE] }

\* The values of the fields other than uuid, name and description that the
\* instances of a kind are given.
Variants(kind) ==
    CASE kind = "BaseModelComponent" -> {BlankEntity}
      [] kind = "LayerModelComponent" -> LayerVariants
      [] kind = "NcsPathway" ->
            LayerVariants \cup
            { [BlankEntity EXCEPT !.carbon_paths = <<"carbon.tif">>],
              [BlankEntity EXCEPT !.carbon_coefficient = 2] }
      [] kind = "ImplementationModel" ->
            LayerVariants \cup
            { [BlankEntity EXCEPT !.pathways =
                   <<Ncs("u1", "Agroforestry", "ncs.tif", "RASTER", <<>>)>>],
              [BlankEntity EXCEPT !.pathways =
                   <<Ncs("u1", "Agroforestry", "ncs.tif", "RASTER", <<"carbon.tif">>)>>],
              [BlankEntity EXCEPT !.pathways =
                   <<Ncs("u1", "Agroforestry", "zones.shp", "VECTOR", <<>>)>>],
              [BlankEntity EXCEPT !.priority_layers =
                   <<[name |-> "Policy", path |-> "carbon.tif"]>>] }
      [] kind = "PriorityLayer" ->
            { BlankEntity,
              [BlankEntity EXCEPT !.groups = <<[name |-> "Policy", value |-> 3]>>],
              [BlankEntity EXCEPT !.selected = TRUE],
              [BlankEntity EXCEPT !.path = "carbon.tif"] }
      [] kind = "Scenario" ->
            { BlankEntity,
              [BlankEntity EXCEPT !.extent = [bbox |-> <<1, 2, 3, 4>>]],
              [BlankEntity EXCEPT !.models = <<NewModel>>],
              [BlankEntity EXCEPT !.priority_layer_groups = <<"Policy">>],
              [BlankEntity EXCEPT !.state = "RUNNING"] }

Instances(kind) ==
    {[v EXCEPT !.uuid = id.uuid, !.name = id.name, !.description = id.description] :
        v \in Variants(kind), id \in Identities}

NoEq == [kind |-> "none", a |-> BlankEntity, b |-> BlankEntity,
         done |-> FALSE, result |-> FALSE]

\* The comparisons to evaluate: two instances of one kind.
EqInputs ==
    UNION {{[kind |-> kind, a |-> a, b |-> b, done |-> FALSE, result |-> FALSE] :
               a \in Instances(kind), b \in Instances(kind)} : kind \in EntityKinds}

\* a == b is evaluated.
Compare ==
    /\ eqCall.kind # "none"
    /\ ~eqCall.done
    /\ eqCall' = [eqCall EXCEPT !.done = TRUE,
                                !.result = EntityEq(eqCall.kind, eqCall.a, eqCall.b)]
    /\ UNCHANGED <<pc, im, last, repeated, settings, slast, emitted, ncsVars, priorityVars,
                 scopeVars, carbonVars>>

(***************************************************************************)
(* The calls on the ImplementationModel                                    *)
(***************************************************************************)
\* The pathway argument of a call that has none.
NoNcs ==
    [uuid |-> UUID(""), name |-> "", description |-> "", path |-> "",
     layer_type |-> "UNDEFINED", user_defined |-> FALSE, carbon_paths |-> <<>>,
     carbon_coefficient |-> 0]

\* A call: its op, its arguments (ncs, uuid, path, or the constructor's
\* given fields), the value it returned, the error it raised ("" for none)
\* and the model before it.
Call(op, ncs, uuid, path, given, result, raised, before) ==
    [op |-> op, ncs |-> ncs, uuid |-> uuid, path |-> path, given |-> given,
     result |-> result, raised |-> raised, before |-> before]

NoCall == Call("none", NoNcs, "", "", NewModel, FALSE, "", NewModel)
\* ImplementationModel(uuid, name, description, path, layer_type,
\* pathways=..., priority_layers=...)
Construct ==
    /\ pc = "new"
    /\ \E p \in ModelPaths, t \in LayerTypes,
          pws \in SeqUpTo(NcsPool, MaxInitPathways),
          pls \in PriorityLayerLists :
         LET given == [NewModel EXCEPT !.path = p, !.layer_type = t,
                                       !.pathways = pws, !.priority_layers = pls]
             out == PostInit(given)
         IN  /\ pc' = IF out.raised = "" THEN "ready" ELSE "failed"
             /\ im' = IF out.raised = "" THEN out.model ELSE im
             /\ last' = Call("construct", NoNcs, "", "", given, FALSE, out.raised, im)
             /\ repeated' = FALSE
    /\ UNCHANGED <<eqCall, settings, slast, emitted, ncsVars, priorityVars,
                 scopeVars, carbonVars>>

DoAddNcsPathway ==
    /\ pc = "ready"
    /\ Len(im.pathways) < MaxPathways
    /\ \E ncs \in NcsPool :
         LET out == AddNcsPathway(im, ncs) IN
         /\ im' = out.model
         /\ last' = Call("add_ncs_pathway", ncs, "", "", NewModel, out.result, "", im)
         /\ repeated' = (last.op = "add_ncs_pathway" /\ last.ncs = ncs)
    /\ UNCHANGED <<pc, eqCall, settings, slast, emitted, ncsVars, priorityVars,
                 scopeVars, carbonVars>>

DoRemoveNcsPathway ==
    /\ pc = "ready"
    /\ \E u \in UuidStrings :
         LET out == RemoveNcsPathway(im, u) IN
         /\ im' = out.model
         /\ last' = Call("remove_ncs_pathway", NoNcs, u, "", NewModel, out.result, "", im)
    /\ repeated' = FALSE
    /\ UNCHANGED <<pc, eqCall, settings, slast, emitted, ncsVars, priorityVars,
                 scopeVars, carbonVars>>

DoClearLayer ==
    /\ pc = "ready"
    /\ im' = ClearLayer(im)
    /\ last' = Call("clear_layer", NoNcs, "", "", NewModel, FALSE, "", im)
    /\ repeated' = FALSE
    /\ UNCHANGED <<pc, eqCall, settings, slast, emitted, ncsVars, priorityVars,
                 scopeVars, carbonVars>>

DoSetPath ==
    /\ pc = "ready"
    /\ \E p \in ModelPaths :
         /\ im' = SetPath(im, p)
         /\ last' = Call("set_path", NoNcs, "", p, NewModel, FALSE, "", im)
    /\ repeated' = FALSE
    /\ UNCHANGED <<pc, eqCall, settings, slast, emitted, ncsVars, priorityVars,
                 scopeVars, carbonVars>>

DoUpdateLayerType ==
    /\ pc = "ready"
    /\ im' = [im EXCEPT !.layer_type = UpdateLayerType(im)]
    /\ last' = Call("update_layer_type", NoNcs, "", "", NewModel, FALSE, "", im)
    /\ repeated' = FALSE
    /\ UNCHANGED <<pc, eqCall, settings, slast, emitted, ncsVars, priorityVars,
                 scopeVars, carbonVars>>

DoIsValid ==
    /\ pc = "ready"
    /\ last' = Call("is_valid", NoNcs, "", "", NewModel, ImIsValid(im), "", im)
    /\ repeated' = FALSE
    /\ UNCHANGED <<pc, im, eqCall, settings, slast, emitted, ncsVars, priorityVars,
                 scopeVars, carbonVars>>

(***************************************************************************)
(* The settings store (QgsSettings)                                        *)
(***************************************************************************)
\* A stored value (a QVariant): a string, a list or a UUID.
StrValue(x) == [t |-> "str", s |-> x, l |-> <<>>]
ListValue(x) == [t |-> "list", s |-> "", l |-> x]
UuidValue(u) == [t |-> "UUID", s |-> Str(u), l |-> <<>>]
NoValue == [t |-> "None", s |-> "", l |-> <<>>]

\* The store is a set of entries [key, value], the key being the sequence
\* of the names between the slashes of the absolute key.
IsPrefix(p, k) == Len(p) <= Len(k) /\ SubSeq(k, 1, Len(p)) = p

\* QgsSettings.setValue(key, value) inside the group
SetValue(store, group, key, value) ==
    {e \in store : e.key # group \o key} \cup {[key |-> group \o key, value |-> value]}

\* QgsSettings.value(key, default) inside the group
Value(store, group, key, default) ==
    IF \E e \in store : e.key = group \o key
    THEN (CHOOSE e \in store : e.key = group \o key).value
    ELSE default

\* QgsSettings.childGroups() inside the group
ChildGroups(store, group) ==
    {e.key[Len(group) + 1] :
        e \in {x \in store : IsPrefix(group, x.key) /\ Len(x.key) > Len(group) + 1}}

\* QgsSettings.remove(name) inside the group: the key and all below it
RemoveKey(store, group, name) ==
    {e \in store : ~IsPrefix(group \o <<name>>, e.key)}

\* SettingsManager.BASE_GROUP_NAME, SCENARIO_GROUP_NAME
BASE_GROUP_NAME == "cplus_plugin"
SCENARIO_GROUP_NAME == "scenarios"

\* SettingsManager._get_scenario_settings_base
ScenarioSettingsBase(identifier) ==
    <<BASE_GROUP_NAME, SCENARIO_GROUP_NAME, identifier>>

(***************************************************************************)
(* Scenarios in the settings manager                                       *)
(***************************************************************************)
\* The scenario uuids, in the order childGroups() lists them (sorted).
ScenarioIds == <<"s1", "s2", "s3">>

\* The scenarios given to save_scenario. extent.has_spatial tells whether
\* the extent object has a `spatial` attribute holding the bbox; the
\* SpatialExtent of models/base.py has none (its bbox is its own field).
ScenarioInputs ==
    {[uuid |-> UUID(u), name |-> n, description |-> "A scenario",
      extent |-> [has_spatial |-> h, bbox |-> b]] :
        u \in Range(ScenarioIds), n \in {"Pilot Run", "Second Run"},
        h \in BOOLEAN, b \in {<<-2396, 3207, -2520, 3074>>, <<0, 0, 10, 10>>}}

NoScenario ==
    [uuid |-> UUID(""), name |-> "", description |-> "",
     extent |-> [has_spatial |-> FALSE, bbox |-> <<>>]]

\* What a settings-manager call gave: None, a ScenarioSettings record, or
\* nothing (a call without a result); raised is the error, "" for none.
Returned(kind, raised, uuid, name, description, bbox) ==
    [kind |-> kind, raised |-> raised, uuid |-> uuid, name |-> name,
     description |-> description, bbox |-> bbox]
Nothing == Returned("nothing", "", "", NoValue, NoValue, NoValue)
ReturnedNone == Returned("None", "", "", NoValue, NoValue, NoValue)
Raised(error) == Returned("raised", error, "", NoValue, NoValue, NoValue)

\* SettingsManager.save_scenario_extent: the error raised and the store.
SaveScenarioExtent(store, key, extent) ==
    IF ~extent.has_spatial
    THEN [raised |-> "AttributeError", store |-> store]
    ELSE [raised |-> "",
          store |-> SetValue(store, key \o <<"extent", "spatial">>, <<"bbox">>,
                             ListValue(extent.bbox))]

\* SettingsManager.save_scenario: the error raised and the store.
SaveScenario(store, scenario) ==
    LET settings_key == ScenarioSettingsBase(Str(scenario.uuid))
        ext == SaveScenarioExtent(store, settings_key, scenario.extent)
    IN  IF ext.raised # "" THEN ext
        ELSE [raised |-> "",
              store |->
                SetValue(
                  SetValue(
                    SetValue(ext.store, settings_key, <<"name">>, StrValue(scenario.name)),
                    settings_key, <<"description">>, StrValue(scenario.description)),
                  settings_key, <<"uuid">>, UuidValue(scenario.uuid))]

\* The fields of the Scenario dataclass that have no default, and its
\* attributes.
ScenarioRequiredFields ==
    {"uuid", "name", "description", "extent", "models", "priority_layer_groups"}
ScenarioAttributes == ScenarioRequiredFields \cup {"state"}

\* ScenarioSettings.from_qgs_settings: cls(uuid=..., name=..., description=...)
FromQgsSettings(identifier, store, group) ==
    LET passed == {"uuid", "name", "description"} IN
    IF ~(ScenarioRequiredFields \subseteq passed)
    THEN Raised("TypeError")
    ELSE Returned("ScenarioSettings", "", identifier,
                  Value(store, group, <<"name">>, NoValue),
                  Value(store, group, <<"description">>, NoValue),
                  NoValue)

\* The loop of get_scenario over the child groups.
RECURSIVE ScanScenarios(_, _, _)
ScanScenarios(store, children, scenario_id) ==
    IF children = <<>> THEN ReturnedNone
    ELSE LET uuid == Head(children)
             scenario == FromQgsSettings(uuid, store, ScenarioSettingsBase(uuid))
         IN  IF scenario.raised # "" THEN scenario
             ELSE IF "id" \notin ScenarioAttributes THEN Raised("AttributeError")
             ELSE IF scenario.uuid = scenario_id THEN scenario
             ELSE ScanScenarios(store, Tail(children), scenario_id)

\* SettingsManager.get_scenario (the second definition, which replaces the
\* first in the class).
GetScenario(store, scenario_id) ==
    LET present == ChildGroups(store, <<BASE_GROUP_NAME, SCENARIO_GROUP_NAME>>)
        children == SelectSeq(ScenarioIds, LAMBDA u : u \in present)
    IN  ScanScenarios(store, children, scenario_id)

\* SettingsManager.delete_all_scenarios
RECURSIVE RemoveAll(_, _, _)
RemoveAll(store, group, names) ==
    IF names = <<>> THEN store
    ELSE RemoveAll(RemoveKey(store, group, Head(names)), group, Tail(names))

DeleteAllScenarios(store) ==
    LET group == <<BASE_GROUP_NAME, SCENARIO_GROUP_NAME>>
        present == ChildGroups(store, group)
    IN  RemoveAll(store, group, SelectSeq(ScenarioIds, LAMBDA u : u \in present))

\* A settings-manager call: op, arguments, what it gave, and the scenario
\* that the call right before it saved (saved_before tells whether it was a
\* save_scenario that did not raise).
SettingsCall(op, scenario, id, result, saved_before, before) ==
    [op |-> op, scenario |-> scenario, id |-> id, result |-> result,
     saved_before |-> saved_before, before |-> before]

NoSettingsCall == SettingsCall("none", NoScenario, "", Nothing, FALSE, NoScenario)
EmptySettings == {}

DoSaveScenario ==
    /\ \E scenario \in ScenarioInputs :
         LET out == SaveScenario(settings, scenario) IN
         /\ \/ Str(scenario.uuid) \in
                   ChildGroups(settings, <<BASE_GROUP_NAME, SCENARIO_GROUP_NAME>>)
            \/ Cardinality(ChildGroups(settings, <<BASE_GROUP_NAME, SCENARIO_GROUP_NAME>>))
                   < MaxScenarios
         /\ settings' = out.store
         /\ slast' = SettingsCall("save_scenario", scenario, "",
                                  IF out.raised = "" THEN Nothing ELSE Raised(out.raised),
                                  FALSE, NoScenario)
    /\ emitted' = <<>>
    /\ UNCHANGED <<pc, im, last, repeated, eqCall, ncsVars, priorityVars,
                   scopeVars, carbonVars>>

DoGetScenario ==
    /\ \E id \in Range(ScenarioIds) :
         slast' = SettingsCall("get_scenario", NoScenario, id,
                               GetScenario(settings, id),
                               slast.op = "save_scenario" /\ slast.result.raised = "",
                               slast.scenario)
    /\ emitted' = <<>>
    /\ UNCHANGED <<pc, im, last, repeated, eqCall, settings, ncsVars, priorityVars,
                   scopeVars, carbonVars>>

DoDeleteAllScenarios ==
    /\ settings' = DeleteAllScenarios(settings)
    /\ slast' = SettingsCall("delete_all_scenarios", NoScenario, "", Nothing,
                             FALSE, NoScenario)
    /\ emitted' = <<>>
    /\ UNCHANGED <<pc, im, last, repeated, eqCall, ncsVars, priorityVars,
                   scopeVars, carbonVars>>

(***************************************************************************)
(* JSON texts (json.dumps / json.loads)                                    *)
(***************************************************************************)
\* A JSON text is the sequence of its tokens. A float is held in
\* hundredths; json writes its shortest repr, which reads back as the same
\* float.
Token(k, s, n) == [k |-> k, s |-> s, n |-> n]
Punct(p) == Token("punct", p, 0)

\* A dict of NCS pathway attributes: keys are the keys present, in
\* insertion order; the field of an absent key is a placeholder.
EmptyDict ==
    [keys |-> <<>>, uuid |-> "", name |-> "", description |-> "", path |-> "",
     layer_type |-> -1, user_defined |-> FALSE, carbon_paths |-> <<>>,
     carbon_coefficient |-> 0]

HasKey(d, key) == key \in Range(d.keys)

\* d[key] = value
SetItem(d, key, value) ==
    [[d EXCEPT ![key] = value] EXCEPT
        !.keys = IF HasKey(d, key) THEN d.keys ELSE Append(d.keys, key)]

\* The tokens json.dumps writes for the value of one key.
DumpValue(d, key) ==
    IF key \in {"uuid", "name", "description", "path"} THEN <<Token("str", d[key], 0)>>
    ELSE IF key = "layer_type" THEN <<Token("int", "", d.layer_type)>>
    ELSE IF key = "user_defined" THEN <<Token("bool", "", IF d.user_defined THEN 1 ELSE 0)>>
    ELSE IF key = "carbon_paths"
         THEN <<Punct("[")>>
              \o [i \in 1..Len(d.carbon_paths) |-> Token("str", d.carbon_paths[i], 0)]
              \o <<Punct("]")>>
    ELSE <<Token("float", "", d.carbon_coefficient)>>

RECURSIVE DumpMembers(_, _)
DumpMembers(d, keys) ==
    IF keys = <<>> THEN <<>>
    ELSE <<Token("str", Head(keys), 0), Punct(":")>> \o DumpValue(d, Head(keys))
         \o DumpMembers(d, Tail(keys))

\* json.dumps(dict)
JsonDumps(d) == <<Punct("{")>> \o DumpMembers(d, d.keys) \o <<Punct("}")>>

\* The strings of a JSON array from position i on: the list read and the
\* position after its "]" (0 when the array is not closed).
RECURSIVE LoadArray(_, _, _)
LoadArray(tokens, i, acc) ==
    IF i > Len(tokens) THEN [list |-> acc, next |-> 0]
    ELSE IF tokens[i] = Punct("]") THEN [list |-> acc, next |-> i + 1]
    ELSE IF tokens[i].k # "str" THEN [list |-> acc, next |-> 0]
    ELSE LoadArray(tokens, i + 1, Append(acc, tokens[i].s))

\* The members of a JSON object from position i on.
RECURSIVE LoadMembers(_, _, _)
LoadMembers(tokens, i, d) ==
    IF i > Len(tokens) THEN [raised |-> "JSONDecodeError", doc |-> EmptyDict]
    ELSE IF tokens[i] = Punct("}")
         THEN IF i = Len(tokens) THEN [raised |-> "", doc |-> d]
              ELSE [raised |-> "JSONDecodeError", doc |-> EmptyDict]
    ELSE IF i + 2 > Len(tokens) \/ tokens[i].k # "str" \/ tokens[i + 1] # Punct(":")
         THEN [raised |-> "JSONDecodeError", doc |-> EmptyDict]
    ELSE LET key == tokens[i].s
             v == tokens[i + 2]
         IN  IF v = Punct("[")
             THEN LET arr == LoadArray(tokens, i + 3, <<>>) IN
                  IF arr.next = 0
                  THEN [raised |-> "JSONDecodeError", doc |-> EmptyDict]
                  ELSE LoadMembers(tokens, arr.next, SetItem(d, key, arr.list))
             ELSE IF v.k = "punct"
             THEN [raised |-> "JSONDecodeError", doc |-> EmptyDict]
             ELSE LoadMembers(tokens, i + 3,
                     SetItem(d, key, IF v.k = "str" THEN v.s
                                     ELSE IF v.k = "bool" THEN v.n = 1
                                     ELSE v.n))

\* json.loads(text): the error raised and the dict read.
JsonLoads(tokens) ==
    IF Len(tokens) = 0 \/ tokens[1] # Punct("{")
    THEN [raised |-> "JSONDecodeError", doc |-> EmptyDict]
    ELSE LoadMembers(tokens, 2, EmptyDict)

\* A stored string holding a text.
TextValue(tokens) == [t |-> "text", s |-> "", l |-> tokens]

(***************************************************************************)
(* NCS pathways to and from dicts                                          *)
(***************************************************************************)
\* LayerType (an IntEnum) and its integer values
LayerTypeValue(t) == IF t = "RASTER" THEN 0 ELSE IF t = "VECTOR" THEN 1 ELSE -1
LayerTypeOf(i) == IF i = 0 THEN "RASTER" ELSE IF i = 1 THEN "VECTOR" ELSE "UNDEFINED"

NcsKeys ==
    <<"uuid", "name", "description", "path", "layer_type", "user_defined",
      "carbon_paths", "carbon_coefficient">>

\* ncs_pathway_to_dict: every attribute of the pathway, the uuid as a string.
NcsPathwayToDict(ncs) ==
    [keys |-> NcsKeys, uuid |-> Str(ncs.uuid), name |-> ncs.name,
     description |-> ncs.description, path |-> ncs.path,
     layer_type |-> LayerTypeValue(ncs.layer_type),
     user_defined |-> ncs.user_defined, carbon_paths |-> ncs.carbon_paths,
     carbon_coefficient |-> ncs.carbon_coefficient]

\* The NcsPathway constructor: the dataclass fields, then __post_init__.
NewNcsPathway(u, n, d, p, t, ud, cps, cc) ==
    [uuid |-> u, name |-> n, description |-> d, path |-> p,
     layer_type |-> UpdateLayerType([path |-> p, layer_type |-> t]),
     user_defined |-> ud, carbon_paths |-> cps, carbon_coefficient |-> cc]

\* create_ncs_pathway: the pathway of a dict, None (absent) for a dict
\* without the attributes every pathway has; an absent optional attribute
\* has the default of the dataclass.
CreateNcsPathway(d) ==
    IF ~({"uuid", "name", "description"} \subseteq Range(d.keys))
    THEN [is_none |-> TRUE, ncs |-> NoNcs]
    ELSE [is_none |-> FALSE,
          ncs |-> NewNcsPathway(
                    UUID(d.uuid), d.name, d.description,
                    IF HasKey(d, "path") THEN d.path ELSE "",
                    IF HasKey(d, "layer_type") THEN LayerTypeOf(d.layer_type)
                                               ELSE "UNDEFINED",
                    IF HasKey(d, "user_defined") THEN d.user_defined ELSE FALSE,
                    IF HasKey(d, "carbon_paths") THEN d.carbon_paths ELSE <<>>,
                    IF HasKey(d, "carbon_coefficient") THEN d.carbon_coefficient ELSE 0)]

(***************************************************************************)
(* NCS pathways in the settings manager                                    *)
(***************************************************************************)
NCS_PATHWAY_BASE == "ncs_pathways"

\* SettingsManager._get_ncs_pathway_settings_base
NcsPathwaySettingsBase == <<BASE_GROUP_NAME, NCS_PATHWAY_BASE>>

\* The uuids of the NCS pathways, in the order childKeys() lists them.
NcsUuids == <<"u1", "u2", "u3">>

\* QgsSettings.childKeys() inside the group
ChildKeys(store, group) ==
    {e.key[Len(group) + 1] :
        e \in {x \in store : IsPrefix(group, x.key) /\ Len(x.key) = Len(group) + 1}}

\* SettingsManager.save_ncs_pathway: the error raised and the store. The
\* argument is an NcsPathway object (is_ncs, ncs) or a dict.
SaveNcsPathwayWrongKey(store, ncs_pathway) ==
    LET d == IF ncs_pathway.is_ncs THEN NcsPathwayToDict(ncs_pathway.ncs)
             ELSE ncs_pathway.dict
        ncs_str == JsonDumps(d)
    IN  IF ~HasKey(d, "uuid") THEN [raised |-> "KeyError", store |-> store]
        ELSE [raised |-> "",
              store |-> SetValue(store, NcsPathwaySettingsBase, <<d.name>>,
                                 TextValue(ncs_str))]

SaveNcsPathway(store, ncs_pathway) ==
    LET d == IF ncs_pathway.is_ncs THEN NcsPathwayToDict(ncs_pathway.ncs)
             ELSE ncs_pathway.dict
        ncs_str == JsonDumps(d)
    IN  IF ~HasKey(d, "uuid") THEN [raised |-> "KeyError", store |-> store]
        ELSE [raised |-> "",
              store |-> SetValue(store, NcsPathwaySettingsBase, <<d.uuid>>,
                                 TextValue(ncs_str))]

\* What an NCS call gave: None, a pathway, a list of pathways or nothing
\* (a call without a result); raised is the error, "" for none; logged
\* counts the calls of log().
NcsResult(kind, raised, ncs, list, logged) ==
    [kind |-> kind, raised |-> raised, ncs |-> ncs, list |-> list, logged |-> logged]

\* SettingsManager.get_ncs_pathway
GetNcsPathway(store, ncs_uuid) ==
    LET ncs_model == Value(store, NcsPathwaySettingsBase, <<ncs_uuid>>, NoValue) IN
    IF ncs_model = NoValue THEN NcsResult("None", "", NoNcs, <<>>, 0)
    ELSE LET loaded == JsonLoads(ncs_model.l) IN
         IF loaded.raised # "" THEN NcsResult("raised", loaded.raised, NoNcs, <<>>, 0)
         ELSE LET created == CreateNcsPathway(loaded.doc) IN
              IF created.is_none THEN NcsResult("None", "", NoNcs, <<>>, 0)
              ELSE NcsResult("NcsPathway", "", created.ncs, <<>>, 0)

\* The names in play in ascending order of Python's str comparison, and
\* the place of a name in it.
NameOrder ==
    <<"Agroforestry", "Fire management", "Mangrove restoration", "Woodlot">>
NameRank(name) == CHOOSE i \in 1..Len(NameOrder) : NameOrder[i] = name

\* sorted(ncs_pathways, key=lambda ncs: ncs.name): a stable sort.
RECURSIVE InsertByName(_, _)
InsertByName(sorted, ncs) ==
    IF sorted = <<>> THEN <<ncs>>
    ELSE IF NameRank(ncs.name) < NameRank(Head(sorted).name)
         THEN <<ncs>> \o sorted
         ELSE <<Head(sorted)>> \o InsertByName(Tail(sorted), ncs)

RECURSIVE SortedByName(_)
SortedByName(pathways) ==
    IF pathways = <<>> THEN <<>>
    ELSE InsertByName(SortedByName(SubSeq(pathways, 1, Len(pathways) - 1)),
                      pathways[Len(pathways)])

\* The loop of get_all_ncs_pathways over the keys.
RECURSIVE CollectNcsPathways(_, _, _)
CollectNcsPathways(store, keys, ncs_pathways) ==
    IF keys = <<>> THEN NcsResult("list", "", NoNcs, ncs_pathways, 0)
    ELSE LET ncs_pathway == GetNcsPathway(store, Head(keys)) IN
         IF ncs_pathway.raised # "" THEN ncs_pathway
         ELSE CollectNcsPathways(store, Tail(keys),
                  IF ncs_pathway.kind # "None"
                  THEN Append(ncs_pathways, ncs_pathway.ncs)
                  ELSE ncs_pathways)

\* SettingsManager.get_all_ncs_pathways
GetAllNcsPathways(store) ==
    LET present == ChildKeys(store, NcsPathwaySettingsBase)
        keys == SelectSeq(NcsUuids, LAMBDA k : k \in present)
        collected == CollectNcsPathways(store, keys, <<>>)
    IN  IF collected.raised # "" THEN collected
        ELSE [collected EXCEPT !.list = SortedByName(collected.list)]

(***************************************************************************)
(* initialize_default_settings                                             *)
(***************************************************************************)
\* The catalogs the bootstrap is run with. A record of
\* DEFAULT_NCS_PATHWAYS has a uuid, a name, a description and the relative
\* path of the layer file; one catalog is well-formed, one has a record
\* without a path, one a record without a uuid.
Catalogs ==
    LET DefaultNcs(u, n, p) ==
            [EmptyDict EXCEPT !.keys = <<"uuid", "name", "description", "path">>,
                              !.uuid = u, !.name = n, !.path = p]
        WithoutKey(d, key) ==
            [[d EXCEPT ![key] = EmptyDict[key]] EXCEPT
                !.keys = SelectSeq(d.keys, LAMBDA k : k # key)]
        c1 == DefaultNcs("u1", "Agroforestry", "agroforestry.tif")
        c2 == DefaultNcs("u2", "Mangrove restoration", "mangrove.tif")
        c3 == DefaultNcs("u3", "Fire management", "fire.tif")
    IN  { <<c1, c2, c3>>,
          <<c1, WithoutKey(c2, "path"), c3>>,
          <<WithoutKey(c1, "uuid"), c2, c3>> }

\* The loop of initialize_default_settings from record i on: the error
\* raised, the store, the catalog (whose dicts the loop updates in place)
\* and the number of log() calls.
RECURSIVE InitializeDefaultSettingsFrom(_, _, _, _)
InitializeDefaultSettingsFrom(store, cat, i, logged) ==
    IF i > Len(cat)
    THEN [raised |-> "", store |-> store, catalog |-> cat, logged |-> logged]
    ELSE LET ncs_dict == cat[i] IN
         IF ~HasKey(ncs_dict, "uuid")
         THEN InitializeDefaultSettingsFrom(store, cat, i + 1, logged + 1)
         ELSE LET ncs == GetNcsPathway(store, ncs_dict.uuid) IN
              IF ncs.raised = "KeyError"
              THEN InitializeDefaultSettingsFrom(store, cat, i + 1, logged + 1)
              ELSE IF ncs.raised # ""
              THEN [raised |-> ncs.raised, store |-> store, catalog |-> cat,
                    logged |-> logged]
              ELSE IF ncs.kind # "None"
              THEN InitializeDefaultSettingsFrom(store, cat, i + 1, logged)
              ELSE IF ~HasKey(ncs_dict, "path")
              THEN InitializeDefaultSettingsFrom(store, cat, i + 1, logged + 1)
              ELSE LET base_dir == ""
                       file_name == ncs_dict.path
                       absolute_path ==
                           base_dir \o "/" \o NCS_PATHWAY_BASE \o "/" \o file_name
                       updated == SetItem(SetItem(ncs_dict, "path", absolute_path),
                                          "user_defined", FALSE)
                       saved == SaveNcsPathway(store, [is_ncs |-> FALSE, ncs |-> NoNcs,
                                                      dict |-> updated])
                   IN  IF saved.raised = "KeyError"
                       THEN InitializeDefaultSettingsFrom(
                                store, [cat EXCEPT ![i] = updated], i + 1, logged + 1)
                       ELSE InitializeDefaultSettingsFrom(
                                saved.store, [cat EXCEPT ![i] = updated], i + 1, logged)

\* initialize_default_settings
InitializeDefaultSettings(store, cat) ==
    InitializeDefaultSettingsFrom(store, cat, 1, 0)

(***************************************************************************)
(* The NCS pathway calls on the settings manager                           *)
(***************************************************************************)
\* The pathways given to save_ncs_pathway.
NcsSaveInputs ==
    { NewNcsPathway(UUID("u1"), "Woodlot", "Trees", "ncs.tif", "RASTER", TRUE,
                    <<"carbon.tif", "corrupt.tif">>, 150),
      NewNcsPathway(UUID("u1"), "Agroforestry", "", "zones.shp", "VECTOR", FALSE,
                    <<>>, 0),
      NewNcsPathway(UUID("u2"), "Agroforestry", "Crops", "zones.shp", "VECTOR", FALSE,
                    <<"carbon.tif">>, 0),
      NewNcsPathway(UUID("u3"), "Fire management", "", "missing.tif", "UNDEFINED", TRUE,
                    <<"corrupt.tif", "carbon.tif">>, 25) }

\* An NCS call: op, arguments, what it gave, the save_ncs_pathway right
\* before it (saved_before tells whether there was one that did not raise)
\* and, for the bootstrap, the store and the catalog before it.
NcsCall(op, uuid, ncs, result, saved_before, saved, before, catalog_before) ==
    [op |-> op, uuid |-> uuid, ncs |-> ncs, result |-> result,
     saved_before |-> saved_before, saved |-> saved, before |-> before,
     catalog_before |-> catalog_before]

NoNcsCall ==
    NcsCall("none", "", NoNcs, NcsResult("nothing", "", NoNcs, <<>>, 0), FALSE, NoNcs,
            {}, <<>>)

DoSaveNcsPathway ==
    /\ \E ncs \in NcsSaveInputs :
         LET out == SaveNcsPathway(settings, [is_ncs |-> TRUE, ncs |-> ncs, dict |-> EmptyDict]) IN
         /\ settings' = out.store
         /\ nlast' = NcsCall("save_ncs_pathway", "", ncs,
                             IF out.raised = ""
                             THEN NcsResult("nothing", "", NoNcs, <<>>, 0)
                             ELSE NcsResult("raised", out.raised, NoNcs, <<>>, 0),
                             FALSE, NoNcs, {}, <<>>)
    /\ emitted' = <<>>
    /\ UNCHANGED <<pc, im, last, repeated, eqCall, slast, catalog, priorityVars,
                   scopeVars, carbonVars>>

DoGetNcsPathway ==
    /\ \E ncs_uuid \in Range(NcsUuids) :
         nlast' = NcsCall("get_ncs_pathway", ncs_uuid, NoNcs,
                          GetNcsPathway(settings, ncs_uuid),
                          nlast.op = "save_ncs_pathway" /\ nlast.result.raised = "",
                          nlast.ncs, {}, <<>>)
    /\ emitted' = <<>>
    /\ UNCHANGED <<pc, im, last, repeated, eqCall, settings, slast, catalog,
                   priorityVars, scopeVars, carbonVars>>

DoGetAllNcsPathways ==
    /\ nlast' = NcsCall("get_all_ncs_pathways", "", NoNcs, GetAllNcsPathways(settings),
                        FALSE, NoNcs, {}, <<>>)
    /\ emitted' = <<>>
    /\ UNCHANGED <<pc, im, last, repeated, eqCall, settings, slast, catalog,
                   priorityVars, scopeVars, carbonVars>>

\* set_value("ncs_pathways/<uuid>", text) with a text that is not JSON: an
\* object cut short
DoSetValue ==
    /\ \E ncs_uuid \in Range(NcsUuids) :
         /\ settings' = SetValue(settings, <<BASE_GROUP_NAME>>,
                                <<NCS_PATHWAY_BASE, ncs_uuid>>,
                                TextValue(<<Punct("{"), Token("str", "uuid", 0)>>))
         /\ nlast' = NcsCall("set_value", ncs_uuid, NoNcs,
                             NcsResult("nothing", "", NoNcs, <<>>, 0), FALSE, NoNcs,
                             {}, <<>>)
    /\ emitted' = <<>>
    /\ UNCHANGED <<pc, im, last, repeated, eqCall, slast, catalog, priorityVars,
                   scopeVars, carbonVars>>

DoInitializeDefaultSettings ==
    /\ LET out == InitializeDefaultSettings(settings, catalog) IN
         /\ settings' = out.store
         /\ catalog' = out.catalog
         /\ nlast' = NcsCall("initialize_default_settings", "", NoNcs,
                             NcsResult(IF out.raised = "" THEN "nothing" ELSE "raised",
                                       out.raised, NoNcs, <<>>, out.logged),
                             FALSE, NoNcs, settings, catalog)
    /\ emitted' = <<>>
    /\ UNCHANGED <<pc, im, last, repeated, eqCall, slast, priorityVars,
                   scopeVars, carbonVars>>

(***************************************************************************)
(* Priority layers in the settings manager                                 *)
(***************************************************************************)
PRIORITY_LAYERS_GROUP_NAME == "priority_layers"

\* SettingsManager._get_priority_layers_settings_base
PriorityLayersSettingsBase(identifier) ==
    <<BASE_GROUP_NAME, PRIORITY_LAYERS_GROUP_NAME, identifier>>

\* Stored booleans and numbers.
BoolValue(b) == [t |-> "bool", s |-> IF b THEN "true" ELSE "false", l |-> <<>>]
IntValue(n) == [t |-> "int", s |-> "", l |-> <<n>>]

\* The uuids of the priority layers and the names of their groups, in the
\* order childGroups() lists them.
PriorityLayerIds == <<"p1", "p2", "p3">>
GroupNames == <<"Biodiversity", "Livelihood", "Policy">>

\* The child groups of a group as a list.
ChildGroupList(store, group, order) ==
    LET present == ChildGroups(store, group) IN
    SelectSeq(order, LAMBDA name : name \in present)

\* The dict of a priority layer as the manager returns it, with the groups
\* read by get_priority_layer and get_priority_layers.
StoredLayer(store, uuid, settings_key) ==
    LET groups_key == settings_key \o <<"groups">>
        names == ChildGroupList(store, groups_key, GroupNames)
    IN
    [uuid |-> uuid,
     name |-> Value(store, settings_key, <<"name">>, NoValue),
     description |-> Value(store, settings_key, <<"description">>, NoValue),
     selected |-> Value(store, settings_key, <<"selected">>, NoValue) = BoolValue(TRUE),
     groups |-> [i \in 1..Len(names) |->
        [name |-> Value(store, groups_key \o <<names[i]>>, <<"name">>, NoValue),
         value |-> Value(store, groups_key \o <<names[i]>>, <<"value">>, NoValue)]]]

\* SettingsManager.get_priority_layer
GetPriorityLayer(store, identifier) ==
    StoredLayer(store, identifier, PriorityLayersSettingsBase(identifier.s))

\* SettingsManager.get_priority_layers
GetPriorityLayers(store) ==
    LET uuids == ChildGroupList(store, <<BASE_GROUP_NAME, PRIORITY_LAYERS_GROUP_NAME>>,
                                PriorityLayerIds)
    IN  [i \in 1..Len(uuids) |->
            StoredLayer(store, StrValue(uuids[i]), PriorityLayersSettingsBase(uuids[i]))]

\* What a priority layer call gave: a layer dict, a list of them or
\* nothing; raised is the error, "" for none.
NoLayerDict ==
    [uuid |-> NoValue, name |-> NoValue, description |-> NoValue,
     selected |-> FALSE, groups |-> <<>>]
LayerResult(kind, raised, layer, list) ==
    [kind |-> kind, raised |-> raised, layer |-> layer, list |-> list]

\* The loop of find_layer_by_name: the id found, "" when the loop ends
\* without a break.
RECURSIVE FindLayerId(_, _, _)
FindLayerId(store, layer_ids, name) ==
    IF layer_ids = <<>> THEN ""
    ELSE LET layer_name ==
                 Value(store, PriorityLayersSettingsBase(Head(layer_ids)), <<"name">>, NoValue)
         IN  IF layer_name = StrValue(name) THEN Head(layer_ids)
             ELSE FindLayerId(store, Tail(layer_ids), name)

FindLayerByNameNoElse(store, name) ==
    LET layer_ids == ChildGroupList(store, <<BASE_GROUP_NAME, PRIORITY_LAYERS_GROUP_NAME>>,
                                    PriorityLayerIds)
        layer_id == FindLayerId(store, layer_ids, name)
    IN  IF layer_id = "" THEN LayerResult("raised", "UnboundLocalError", NoLayerDict, <<>>)
        ELSE LayerResult("dict", "", GetPriorityLayer(store, UuidValue(UUID(layer_id))), <<>>)

\* SettingsManager.find_layer_by_name
FindLayerByName(store, name) ==
    LET layer_ids == ChildGroupList(store, <<BASE_GROUP_NAME, PRIORITY_LAYERS_GROUP_NAME>>,
                                    PriorityLayerIds)
        layer_id == FindLayerId(store, layer_ids, name)
    IN  IF layer_id = "" THEN LayerResult("raised", "ValueError", NoLayerDict, <<>>)
        ELSE LayerResult("dict", "", GetPriorityLayer(store, UuidValue(UUID(layer_id))), <<>>)

\* The loop of save_priority_layer over the groups.
RECURSIVE SaveGroups(_, _, _)
SaveGroups(store, groups_key, groups) ==
    IF groups = <<>> THEN store
    ELSE LET group == Head(groups)
             group_key == groups_key \o <<group.name>>
         IN  SaveGroups(SetValue(SetValue(store, group_key, <<"name">>, StrValue(group.name)),
                                 group_key, <<"value">>, IntValue(group.value)),
                        groups_key, Tail(groups))

\* SettingsManager.save_priority_layer: the store and the signals emitted.
SavePriorityLayer(store, priority_layer) ==
    LET settings_key == PriorityLayersSettingsBase(priority_layer.uuid)
        named == SetValue(store, settings_key, <<"name">>, StrValue(priority_layer.name))
        described == SetValue(named, settings_key, <<"description">>,
                              StrValue(priority_layer.description))
        selected == SetValue(described, settings_key, <<"selected">>,
                             BoolValue(priority_layer.selected))
    IN  [store |-> SaveGroups(selected, settings_key \o <<"groups">>, priority_layer.groups),
         emitted |-> <<"priority_layers_changed">>]

\* The loop of set_current_priority_layer: every round writes the
\* "selected" of the layer `identifier`.
RECURSIVE SetCurrentFrom(_, _, _)
SetCurrentFrom(store, children, identifier) ==
    IF children = <<>> THEN store
    ELSE LET priority_layer == Head(children)
             settings_key == PriorityLayersSettingsBase(identifier)
         IN  SetCurrentFrom(SetValue(store, settings_key, <<"selected">>,
                                     BoolValue(priority_layer = identifier)),
                            Tail(children), identifier)

\* SettingsManager.set_current_priority_layer
SetCurrentPriorityLayer(store, identifier) ==
    SetCurrentFrom(store,
                   ChildGroupList(store, <<BASE_GROUP_NAME, PRIORITY_LAYERS_GROUP_NAME>>,
                                  PriorityLayerIds),
                   identifier)

\* SettingsManager.delete_priority_layers
DeletePriorityLayers(store) ==
    LET group == <<BASE_GROUP_NAME, PRIORITY_LAYERS_GROUP_NAME>> IN
    RemoveAll(store, group, ChildGroupList(store, group, PriorityLayerIds))

\* SettingsManager.delete_priority_layer
DeletePriorityLayer(store, identifier) ==
    LET group == <<BASE_GROUP_NAME, PRIORITY_LAYERS_GROUP_NAME>>
        children == ChildGroupList(store, group, PriorityLayerIds)
    IN  RemoveAll(store, group, SelectSeq(children, LAMBDA pl : pl = identifier))

(***************************************************************************)
(* The priority layer calls on the settings manager                        *)
(***************************************************************************)
\* The priority layers given to save_priority_layer: one kind with two
\* groups, one with none.
PriorityLayerInputs ==
    {[uuid |-> u, name |-> k.name, description |-> "A priority layer", selected |-> s,
      groups |-> k.groups] :
        u \in Range(PriorityLayerIds), s \in BOOLEAN,
        k \in { [name |-> "Social",
                 groups |-> <<[name |-> "Policy", value |-> 1],
                              [name |-> "Biodiversity", value |-> 3]>>],
                [name |-> "Climate", groups |-> <<>>] }}

NoPriorityLayer ==
    [uuid |-> "", name |-> "", description |-> "", selected |-> FALSE, groups |-> <<>>]

\* A priority layer call: op, arguments and what it gave.
LayerCall(op, id, name, layer, result) ==
    [op |-> op, id |-> id, name |-> name, layer |-> layer, result |-> result]

NoLayerCall == LayerCall("none", "", "", NoPriorityLayer,
                        LayerResult("nothing", "", NoLayerDict, <<>>))

StoredLayerIds(store) ==
    ChildGroups(store, <<BASE_GROUP_NAME, PRIORITY_LAYERS_GROUP_NAME>>)

DoSavePriorityLayer ==
    /\ \E priority_layer \in PriorityLayerInputs :
         LET out == SavePriorityLayer(settings, priority_layer) IN
         /\ settings' = out.store
         /\ emitted' = out.emitted
         /\ plast' = LayerCall("save_priority_layer", "", "", priority_layer,
                             LayerResult("nothing", "", NoLayerDict, <<>>))
    /\ UNCHANGED <<pc, im, last, repeated, eqCall, slast, ncsVars, scopeVars, carbonVars>>

DoGetPriorityLayer ==
    /\ \E id \in Range(PriorityLayerIds) :
         plast' = LayerCall("get_priority_layer", id, "", NoPriorityLayer,
                            LayerResult("dict", "", GetPriorityLayer(settings, StrValue(id)),
                                        <<>>))
    /\ emitted' = <<>>
    /\ UNCHANGED <<pc, im, last, repeated, eqCall, settings, slast, ncsVars, scopeVars,
                   carbonVars>>

DoGetPriorityLayers ==
    /\ plast' = LayerCall("get_priority_layers", "", "", NoPriorityLayer,
                          LayerResult("list", "", NoLayerDict, GetPriorityLayers(settings)))
    /\ emitted' = <<>>
    /\ UNCHANGED <<pc, im, last, repeated, eqCall, settings, slast, ncsVars, scopeVars,
                   carbonVars>>

DoFindLayerByName ==
    /\ \E name \in {"Social", "Climate", "Unknown"} :
         plast' = LayerCall("find_layer_by_name", "", name, NoPriorityLayer,
                            FindLayerByName(settings, name))
    /\ emitted' = <<>>
    /\ UNCHANGED <<pc, im, last, repeated, eqCall, settings, slast, ncsVars, scopeVars,
                   carbonVars>>

DoSetCurrentPriorityLayer ==
    /\ \E id \in Range(PriorityLayerIds) :
         /\ settings' = SetCurrentPriorityLayer(settings, id)
         /\ plast' = LayerCall("set_current_priority_layer", id, "", NoPriorityLayer,
                               LayerResult("nothing", "", NoLayerDict, <<>>))
    /\ emitted' = <<>>
    /\ UNCHANGED <<pc, im, last, repeated, eqCall, slast, ncsVars, scopeVars, carbonVars>>

DoDeletePriorityLayers ==
    /\ settings' = DeletePriorityLayers(settings)
    /\ plast' = LayerCall("delete_priority_layers", "", "", NoPriorityLayer,
                        LayerResult("nothing", "", NoLayerDict, <<>>))
    /\ emitted' = <<>>
    /\ UNCHANGED <<pc, im, last, repeated, eqCall, slast, ncsVars, scopeVars, carbonVars>>

DoDeletePriorityLayer ==
    /\ \E id \in Range(PriorityLayerIds) :
         /\ settings' = DeletePriorityLayer(settings, id)
         /\ plast' = LayerCall("delete_priority_layer", id, "", NoPriorityLayer,
                        LayerResult("nothing", "", NoLayerDict, <<>>))
    /\ emitted' = <<>>
    /\ UNCHANGED <<pc, im, last, repeated, eqCall, slast, ncsVars, scopeVars, carbonVars>>

(***************************************************************************)
(* The qgis_settings scope (a context manager around beginGroup/endGroup)  *)
(***************************************************************************)
\* The QgsSettings objects a scope is opened on: qgis_settings makes a new
\* one (whose group stack is empty) or takes the one passed to it.
SettingsObjects == {"a", "b"}

\* QgsSettings.beginGroup and endGroup on one object
BeginGroup(g, obj, group_root) == [g EXCEPT ![obj] = Append(g[obj], group_root)]
EndGroup(g, obj) == [g EXCEPT ![obj] = SubSeq(g[obj], 1, Len(g[obj]) - 1)]

\* Leaving the scope on obj while the operation proceeds as `how`: the
\* finally clause runs endGroup on every way out of the body.
ExitScopeNoFinally(g, obj, how) == IF how = "raise" THEN g ELSE EndGroup(g, obj)

ExitScope(g, obj, how) == EndGroup(g, obj)

\* A settings-manager operation begins.
StartOperation ==
    /\ flow \in {"idle", "completed", "returned", "raised"}
    /\ flow' = "body"
    /\ groupBefore' = groupStack
    /\ deepest' = 0
    /\ UNCHANGED <<groupStack, scopes>>
    /\ UNCHANGED <<pc, im, last, repeated, eqCall, settings, slast, emitted, ncsVars,
                   priorityVars, carbonVars>>

\* `with qgis_settings(group_root, settings) as ...`: beginGroup, then the
\* body runs (scopes nest).
EnterScope ==
    /\ flow = "body"
    /\ Len(scopes) < MaxScopeDepth
    /\ \E obj \in SettingsObjects,
          group_root \in {"cplus_plugin/scenarios", "cplus_plugin/ncs_pathways"} :
         /\ groupStack' = BeginGroup(groupStack, obj, group_root)
         /\ scopes' = Append(scopes, obj)
    /\ deepest' = IF Len(scopes) + 1 > deepest THEN Len(scopes) + 1 ELSE deepest
    /\ UNCHANGED <<flow, groupBefore>>
    /\ UNCHANGED <<pc, im, last, repeated, eqCall, settings, slast, emitted, ncsVars,
                   priorityVars, carbonVars>>

\* The body of the innermost scope runs to its end.
BodyCompletes ==
    /\ flow = "body"
    /\ scopes # <<>>
    /\ groupStack' = ExitScope(groupStack, scopes[Len(scopes)], flow)
    /\ scopes' = SubSeq(scopes, 1, Len(scopes) - 1)
    /\ UNCHANGED <<flow, groupBefore, deepest>>
    /\ UNCHANGED <<pc, im, last, repeated, eqCall, settings, slast, emitted, ncsVars,
                   priorityVars, carbonVars>>

\* A return statement in the body of the innermost scope.
ReturnInBody ==
    /\ flow = "body"
    /\ scopes # <<>>
    /\ flow' = "return"
    /\ UNCHANGED <<groupStack, scopes, groupBefore, deepest>>
    /\ UNCHANGED <<pc, im, last, repeated, eqCall, settings, slast, emitted, ncsVars,
                   priorityVars, carbonVars>>

\* The body of the innermost scope raises.
RaiseInBody ==
    /\ flow = "body"
    /\ scopes # <<>>
    /\ flow' = "raise"
    /\ UNCHANGED <<groupStack, scopes, groupBefore, deepest>>
    /\ UNCHANGED <<pc, im, last, repeated, eqCall, settings, slast, emitted, ncsVars,
                   priorityVars, carbonVars>>

\* The return or the error leaves the innermost scope.
Unwind ==
    /\ flow \in {"return", "raise"}
    /\ scopes # <<>>
    /\ groupStack' = ExitScope(groupStack, scopes[Len(scopes)], flow)
    /\ scopes' = SubSeq(scopes, 1, Len(scopes) - 1)
    /\ UNCHANGED <<flow, groupBefore, deepest>>
    /\ UNCHANGED <<pc, im, last, repeated, eqCall, settings, slast, emitted, ncsVars,
                   priorityVars, carbonVars>>

\* The operation ends: normally, by its return, or with the error.
FinishOperation ==
    /\ flow \in {"body", "return", "raise"}
    /\ scopes = <<>>
    /\ flow' = IF flow = "body" THEN "completed"
               ELSE IF flow = "return" THEN "returned" ELSE "raised"
    /\ UNCHANGED <<groupStack, scopes, groupBefore, deepest>>
    /\ UNCHANGED <<pc, im, last, repeated, eqCall, settings, slast, emitted, ncsVars,
                   priorityVars, carbonVars>>

(***************************************************************************)
(* NcsPathway.add_carbon_path                                              *)
(***************************************************************************)
\* NcsPathway.add_carbon_path: the value returned and carbon_paths.
AddCarbonPathNoMembership(carbon_paths, carbon_path) ==
    IF ~PathExists(carbon_path) THEN [result |-> FALSE, carbon_paths |-> carbon_paths]
    ELSE [result |-> TRUE, carbon_paths |-> Append(carbon_paths, carbon_path)]

AddCarbonPath(carbon_paths, carbon_path) ==
    IF carbon_path \in Range(carbon_paths)
    THEN [result |-> FALSE, carbon_paths |-> carbon_paths]
    ELSE IF ~PathExists(carbon_path)
    THEN [result |-> FALSE, carbon_paths |-> carbon_paths]
    ELSE [result |-> TRUE, carbon_paths |-> Append(carbon_paths, carbon_path)]

\* An add_carbon_path call: its argument, the value returned, carbon_paths
\* before it, and the arguments of the calls that returned True so far.
NoCarbonCall ==
    [op |-> "none", path |-> "", result |-> FALSE, before |-> <<>>, accepted |-> <<>>]

DoAddCarbonPath ==
    /\ Len(carbon) <= MaxCarbonPaths
    /\ \E carbon_path \in {"carbon.tif", "ncs.tif", "model.tif", "corrupt.tif",
                          "missing.tif"} :
         LET out == AddCarbonPath(carbon, carbon_path) IN
         /\ carbon' = out.carbon_paths
         /\ clast' = [op |-> "add_carbon_path", path |-> carbon_path,
                      result |-> out.result, before |-> carbon,
                      accepted |-> IF out.result
                                   THEN Append(clast.accepted, carbon_path)
                                   ELSE clast.accepted]
    /\ UNCHANGED <<pc, im, last, repeated, eqCall, settings, slast, emitted, ncsVars,
                   priorityVars, scopeVars>>

(***************************************************************************)
(* The specifications                                                      *)
(***************************************************************************)
\* Every specification starts from the state after construction; the parts
\* of the state it does not use keep their initial value.
InitModel ==
    /\ pc = "new"
    /\ im = NewModel
    /\ last = NoCall
    /\ repeated = FALSE
    /\ eqCall = NoEq
    /\ settings = EmptySettings
    /\ slast = NoSettingsCall
    /\ emitted = <<>>
    /\ catalog = <<>>
    /\ nlast = NoNcsCall
    /\ plast = NoLayerCall
    /\ groupStack = [obj \in SettingsObjects |-> <<>>]
    /\ scopes = <<>>
    /\ flow = "idle"
    /\ groupBefore = groupStack
    /\ deepest = 0
    /\ carbon = <<>>
    /\ clast = NoCarbonCall

NextModel ==
    \/ Construct
    \/ DoAddNcsPathway
    \/ DoRemoveNcsPathway
    \/ DoClearLayer
    \/ DoSetPath
    \/ DoUpdateLayerType
    \/ DoIsValid

SpecModel == InitModel /\ [][NextModel]_vars

InitEq ==
    /\ pc = "new"
    /\ im = NewModel
    /\ last = NoCall
    /\ repeated = FALSE
    /\ eqCall \in EqInputs
    /\ settings = EmptySettings
    /\ slast = NoSettingsCall
    /\ emitted = <<>>
    /\ catalog = <<>>
    /\ nlast = NoNcsCall
    /\ plast = NoLayerCall
    /\ groupStack = [obj \in SettingsObjects |-> <<>>]
    /\ scopes = <<>>
    /\ flow = "idle"
    /\ groupBefore = groupStack
    /\ deepest = 0
    /\ carbon = <<>>
    /\ clast = NoCarbonCall

NextEq == Compare

SpecEq == InitEq /\ [][NextEq]_vars

InitScenario ==
    /\ pc = "new"
    /\ im = NewModel
    /\ last = NoCall
    /\ repeated = FALSE
    /\ eqCall = NoEq
    /\ settings = EmptySettings
    /\ slast = NoSettingsCall
    /\ emitted = <<>>
    /\ catalog = <<>>
    /\ nlast = NoNcsCall
    /\ plast = NoLayerCall
    /\ groupStack = [obj \in SettingsObjects |-> <<>>]
    /\ scopes = <<>>
    /\ flow = "idle"
    /\ groupBefore = groupStack
    /\ deepest = 0
    /\ carbon = <<>>
    /\ clast = NoCarbonCall

NextScenario ==
    \/ DoSaveScenario
    \/ DoGetScenario
    \/ DoDeleteAllScenarios

SpecScenario == InitScenario /\ [][NextScenario]_vars

InitNcs ==
    /\ pc = "new"
    /\ im = NewModel
    /\ last = NoCall
    /\ repeated = FALSE
    /\ eqCall = NoEq
    /\ settings = EmptySettings
    /\ emitted = <<>>
    /\ slast = NoSettingsCall
    /\ catalog \in Catalogs
    /\ nlast = NoNcsCall
    /\ plast = NoLayerCall
    /\ groupStack = [obj \in SettingsObjects |-> <<>>]
    /\ scopes = <<>>
    /\ flow = "idle"
    /\ groupBefore = groupStack
    /\ deepest = 0
    /\ carbon = <<>>
    /\ clast = NoCarbonCall

NextNcs ==
    \/ DoSaveNcsPathway
    \/ DoGetNcsPathway
    \/ DoGetAllNcsPathways
    \/ DoSetValue
    \/ DoInitializeDefaultSettings

SpecNcs == InitNcs /\ [][NextNcs]_vars

InitPriority ==
    /\ pc = "new"
    /\ im = NewModel
    /\ last = NoCall
    /\ repeated = FALSE
    /\ eqCall = NoEq
    /\ settings = EmptySettings
    /\ emitted = <<>>
    /\ slast = NoSettingsCall
    /\ catalog = <<>>
    /\ nlast = NoNcsCall
    /\ plast = NoLayerCall
    /\ groupStack = [obj \in SettingsObjects |-> <<>>]
    /\ scopes = <<>>
    /\ flow = "idle"
    /\ groupBefore = groupStack
    /\ deepest = 0
    /\ carbon = <<>>
    /\ clast = NoCarbonCall

NextPriority ==
    \/ DoSavePriorityLayer
    \/ DoGetPriorityLayer
    \/ DoGetPriorityLayers
    \/ DoFindLayerByName
    \/ DoSetCurrentPriorityLayer
    \/ DoDeletePriorityLayers
    \/ DoDeletePriorityLayer

SpecPriority == InitPriority /\ [][NextPriority]_vars

\* The caller may already be inside a group of a settings object it passes.
InitScope ==
    /\ pc = "new"
    /\ im = NewModel
    /\ last = NoCall
    /\ repeated = FALSE
    /\ eqCall = NoEq
    /\ settings = EmptySettings
    /\ emitted = <<>>
    /\ slast = NoSettingsCall
    /\ catalog = <<>>
    /\ nlast = NoNcsCall
    /\ plast = NoLayerCall
    /\ groupStack \in [SettingsObjects -> {<<>>, <<"cplus_plugin">>}]
    /\ scopes = <<>>
    /\ flow = "idle"
    /\ groupBefore = groupStack
    /\ deepest = 0
    /\ carbon = <<>>
    /\ clast = NoCarbonCall

NextScope ==
    \/ StartOperation
    \/ EnterScope
    \/ BodyCompletes
    \/ ReturnInBody
    \/ RaiseInBody
    \/ Unwind
    \/ FinishOperation

SpecScope == InitScope /\ [][NextScope]_vars

InitCarbon ==
    /\ pc = "new"
    /\ im = NewModel
    /\ last = NoCall
    /\ repeated = FALSE
    /\ eqCall = NoEq
    /\ settings = EmptySettings
    /\ emitted = <<>>
    /\ slast = NoSettingsCall
    /\ catalog = <<>>
    /\ nlast = NoNcsCall
    /\ plast = NoLayerCall
    /\ groupStack = [obj \in SettingsObjects |-> <<>>]
    /\ scopes = <<>>
    /\ flow = "idle"
    /\ groupBefore = groupStack
    /\ deepest = 0
    /\ carbon = <<>>
    /\ clast = NoCarbonCall

NextCarbon == DoAddCarbonPath

SpecCarbon == InitCarbon /\ [][NextCarbon]_vars

(***************************************************************************)
(* Properties of the ImplementationModel (SpecModel)                       *)
(***************************************************************************)
\* The number of entries of a pathways collection with the given uuid.
Occurrences(pathways, u) ==
    Cardinality({i \in 1..Len(pathways) : pathways[i].uuid = u})

AddedTwice ==
    /\ pc = "ready"
    /\ last.op = "add_ncs_pathway"
    /\ repeated
    /\ NcsIsValid(last.ncs)

C2_UniqueUuids ==
    pc = "ready" =>
        \A i, j \in 1..Len(im.pathways) :
            i # j => im.pathways[i].uuid # im.pathways[j].uuid

\* A valid pathway was just rejected by a model holding two pathways, one
\* of them with its uuid.
C2_Witness ==
    /\ pc = "ready"
    /\ last.op = "add_ncs_pathway"
    /\ NcsIsValid(last.ncs)
    /\ last.result = FALSE
    /\ Len(im.pathways) >= 2
    /\ last.ncs \notin Range(im.pathways)

\* The model's path resolves to a map layer.
ResolvesToLayer(m) == PathExists(m.path) /\ m.layer_type \in {"RASTER", "VECTOR"}

\* C3: whenever the model's path resolves to a map layer the pathways
\* collection is empty, and add_ncs_pathway returns False while it does.
C3_LayerExcludesPathways ==
    (pc = "ready" /\ ResolvesToLayer(im)) =>
        /\ Len(im.pathways) = 0
        /\ (last.op = "add_ncs_pathway" /\ ResolvesToLayer(last.before))
               => last.result = FALSE

\* C4: setting a valid layer path on a model that has pathways leaves the
\* pathways collection empty.
C4_SetPathClearsPathways ==
    ( /\ pc = "ready"
      /\ last.op = "set_path"
      /\ LayerComponentIsValid(im)
      /\ Len(last.before.pathways) > 0 ) => Len(im.pathways) = 0

HasSharedUuid(pathways) ==
    \E i, j \in 1..Len(pathways) : i # j /\ pathways[i].uuid = pathways[j].uuid

\* C5: constructing a model from pathways two of which share a uuid raises
\* ValueError and yields no model, whatever the path and the layer type.
C5_DuplicatesRaise ==
    (last.op = "construct" /\ HasSharedUuid(last.given.pathways)) =>
        /\ last.raised = "ValueError"
        /\ pc = "failed"

\* The constructor was given two pathways sharing a uuid together with a
\* path and layer type that resolve to a layer.
C5_Witness ==
    /\ last.op = "construct"
    /\ HasSharedUuid(last.given.pathways)
    /\ last.given.pathways[1] # last.given.pathways[2]
    /\ ResolvesToLayer(last.given)

\* C6: remove_ncs_pathway with an id no pathway holds returns False and
\* changes nothing; with an id that is present it returns True and removes
\* exactly that pathway, the others keeping their order.
C6_Remove ==
    last.op = "remove_ncs_pathway" =>
        LET u == last.uuid
            b == last.before.pathways
            present == \E i \in 1..Len(b) : Str(b[i].uuid) = u
        IN  IF ~present
            THEN last.result = FALSE /\ im.pathways = b
            ELSE /\ last.result = TRUE
                 /\ Len(im.pathways) = Len(b) - 1
                 /\ im.pathways = SelectSeq(b, LAMBDA p : Str(p.uuid) # u)

\* A pathway that was neither the first nor the last of three was removed.
C6_Witness ==
    /\ last.op = "remove_ncs_pathway"
    /\ last.result = TRUE
    /\ Len(last.before.pathways) = 3
    /\ Str(last.before.pathways[2].uuid) = last.uuid

SameIdentity ==
    /\ eqCall.done
    /\ eqCall.a.uuid = eqCall.b.uuid
    /\ eqCall.a.name = eqCall.b.name
    /\ eqCall.a.description = eqCall.b.description

SavedThenLoaded ==
    /\ slast.op = "get_scenario"
    /\ slast.saved_before
    /\ slast.id = Str(slast.before.uuid)

\* C10: save_scenario(s) followed by get_scenario with s's id returns a
\* ScenarioSettings record with the id, name, description and extent bbox
\* of s.
C10_ScenarioRoundTrip ==
    SavedThenLoaded =>
        /\ slast.result.kind = "ScenarioSettings"
        /\ slast.result.uuid = Str(slast.before.uuid)
        /\ slast.result.name = StrValue(slast.before.name)
        /\ slast.result.description = StrValue(slast.before.description)
        /\ slast.result.bbox = ListValue(slast.before.extent.bbox)

(***************************************************************************)
(* Properties of the NCS pathway settings (SpecNcs)                        *)
(***************************************************************************)
\* The text stored under a uuid (NoValue when there is none), whether it
\* fails to parse, and whether it gives a pathway.
NcsBlob(store, ncs_uuid) == Value(store, NcsPathwaySettingsBase, <<ncs_uuid>>, NoValue)
Unparsable(store, ncs_uuid) ==
    /\ NcsBlob(store, ncs_uuid) # NoValue
    /\ JsonLoads(NcsBlob(store, ncs_uuid).l).raised # ""
Parsable(store, ncs_uuid) ==
    /\ NcsBlob(store, ncs_uuid) # NoValue
    /\ JsonLoads(NcsBlob(store, ncs_uuid).l).raised = ""

\* get_ncs_pathway was called with the uuid of the pathway that the call
\* right before it saved.
NcsSavedThenLoaded ==
    /\ nlast.op = "get_ncs_pathway"
    /\ nlast.saved_before
    /\ nlast.uuid = Str(nlast.saved.uuid)

C12_GetAbsentOrMalformed ==
    (/\ nlast.op = "get_ncs_pathway"
     /\ \/ NcsBlob(settings, nlast.uuid) = NoValue
        \/ Unparsable(settings, nlast.uuid))
    => /\ nlast.result.raised = ""
       /\ nlast.result.kind = "None"

\* The pathways of a list are in ascending order of name.
SortedAscending(list) ==
    \A i \in 1..Len(list), j \in 1..Len(list) :
        i < j => NameRank(list[i].name) <= NameRank(list[j].name)

\* C13: get_all_ncs_pathways() returns exactly one pathway per key under
\* the NCS root whose text parses, skips the keys whose text fails to parse
\* without raising, and returns the pathways in ascending order of name.
C13_GetAllSkipsAndSorts ==
    nlast.op = "get_all_ncs_pathways" =>
        LET parsed == {u \in Range(NcsUuids) : Parsable(settings, u)} IN
        /\ nlast.result.raised = ""
        /\ nlast.result.kind = "list"
        /\ Len(nlast.result.list) = Cardinality(parsed)
        /\ {Str(nlast.result.list[i].uuid) : i \in 1..Len(nlast.result.list)} = parsed
        /\ SortedAscending(nlast.result.list)

(***************************************************************************)
(* Properties of initialize_default_settings (SpecNcs)                     *)
(***************************************************************************)
\* The catalog records with a uuid and a path, by their place in the
\* catalog the bootstrap was run with.
WellFormedRecords ==
    {i \in 1..Len(nlast.catalog_before) :
        HasKey(nlast.catalog_before[i], "uuid") /\ HasKey(nlast.catalog_before[i], "path")}

\* The bootstrap wrote the record: a text is stored under its uuid that
\* was not there before.
Persisted(i) ==
    LET ncs_uuid == nlast.catalog_before[i].uuid IN
    /\ NcsBlob(settings, ncs_uuid) # NoValue
    /\ NcsBlob(settings, ncs_uuid) # NcsBlob(nlast.before, ncs_uuid)

\* C15: initialize_default_settings persists a catalog record if and only
\* if no NCS pathway with the record's uuid is stored beforehand; what is
\* stored under a catalog uuid beforehand is left unchanged.
C15_SeedIffAbsent ==
    nlast.op = "initialize_default_settings" =>
        \A i \in WellFormedRecords :
            LET ncs_uuid == nlast.catalog_before[i].uuid IN
            /\ Persisted(i) <=> NcsBlob(nlast.before, ncs_uuid) = NoValue
            /\ NcsBlob(nlast.before, ncs_uuid) # NoValue
                   => NcsBlob(settings, ncs_uuid) = NcsBlob(nlast.before, ncs_uuid)

\* The catalog records the bootstrap fails on: a record without a uuid or
\* a path, or one whose stored text cannot be read.
FailingRecords ==
    {i \in 1..Len(nlast.catalog_before) :
        \/ i \notin WellFormedRecords
        \/ Unparsable(nlast.before, nlast.catalog_before[i].uuid)}

\* C16: a failure on one catalog record (a missing uuid or path, an
\* unreadable stored record for its uuid) never aborts the batch: the
\* record is skipped and logged, every other well-formed record that is
\* not yet stored is persisted, and the bootstrap does not raise.
C16_SeedNeverAborts ==
    nlast.op = "initialize_default_settings" =>
        /\ nlast.result.raised = ""
        /\ \A i \in WellFormedRecords :
               NcsBlob(nlast.before, nlast.catalog_before[i].uuid) = NoValue
                   => Persisted(i)
        /\ \A i \in FailingRecords : ~Persisted(i)

(***************************************************************************)
(* Properties of the priority layer settings (SpecPriority)                *)
(***************************************************************************)
\* The stored priority layers that have the name.
LayersNamed(name) ==
    {id \in StoredLayerIds(settings) :
        Value(settings, PriorityLayersSettingsBase(id), <<"name">>, NoValue) = StrValue(name)}

\* C14: find_layer_by_name(name) raises the not-found error (ValueError)
\* whenever no stored priority layer has the name, also when no priority
\* layer is stored; when a stored layer has the name, it returns the dict
\* of a stored layer with that name.
C14_FindLayerByName ==
    plast.op = "find_layer_by_name" =>
        IF LayersNamed(plast.name) = {}
        THEN plast.result.raised = "ValueError"
        ELSE /\ plast.result.raised = ""
             /\ plast.result.kind = "dict"
             /\ plast.result.layer.name = StrValue(plast.name)
             /\ plast.result.layer.uuid.s \in LayersNamed(plast.name)

\* Priority layers are stored, none of them has the name asked for, and
\* the call raised.
C14_Witness ==
    /\ plast.op = "find_layer_by_name"
    /\ Cardinality(StoredLayerIds(settings)) = 2
    /\ LayersNamed(plast.name) = {}
    /\ plast.result.raised = "ValueError"

\* C17: every save_* and delete_* operation of the settings manager emits
\* a change notification after it writes to the store.
C17_WritesNotify ==
    [][(/\ \/ slast' # slast /\ slast'.op \in {"save_scenario", "delete_all_scenarios"}
           \/ nlast' # nlast /\ nlast'.op = "save_ncs_pathway"
           \/ plast' # plast /\ plast'.op \in {"save_priority_layer",
                                               "delete_priority_layer",
                                               "delete_priority_layers"}
        /\ settings' # settings)
       => emitted' # <<>>]_vars

(***************************************************************************)
(* Properties of the qgis_settings scope (SpecScope)                       *)
(***************************************************************************)
\* The number of scopes entered on obj and not yet left.
OpenScopes(obj) == Cardinality({i \in 1..Len(scopes) : scopes[i] = obj})

\* C18: the scope restores the previous group on every way out: each
\* beginGroup is matched by one endGroup whether the body completes,
\* returns or raises, so when an operation has ended the groups of every
\* settings object are those of before the operation.
C18_ScopeRestoresGroup ==
    /\ \A obj \in SettingsObjects :
           /\ Len(groupStack[obj]) = Len(groupBefore[obj]) + OpenScopes(obj)
           /\ SubSeq(groupStack[obj], 1, Len(groupBefore[obj])) = groupBefore[obj]
    /\ flow \in {"completed", "returned", "raised"} => groupStack = groupBefore

\* An operation that nested two scopes, on a settings object that was
\* inside a group already, has ended with an error.
C18_Witness ==
    /\ flow = "raised"
    /\ deepest = 2
    /\ groupBefore["a"] # <<>>
    /\ groupStack = groupBefore

(***************************************************************************)
(* Properties of the layer type (SpecModel)                                *)
(***************************************************************************)
\* The layer type that opening the path gives.
DerivedLayerType(path) ==
    IF PathExists(path) /\ RasterIsValid(path) THEN "RASTER"
    ELSE IF PathExists(path) /\ VectorIsValid(path) THEN "VECTOR"
    ELSE "UNDEFINED"

\* C19: layer_type is recomputed whenever path changes: after the
\* assignment of another path, or clear_layer, layer_type is the type
\* derived from opening the current path, not one left from the path before.
C19_LayerTypeFollowsPath ==
    (last.op \in {"set_path", "clear_layer"} /\ im.path # last.before.path)
    => im.layer_type = DerivedLayerType(im.path)

(***************************************************************************)
(* Properties of add_carbon_path (SpecCarbon)                              *)
(***************************************************************************)
\* C20: add_carbon_path(c) returns False and leaves carbon_paths unchanged
\* when c is already in carbon_paths or does not exist, and otherwise
\* appends c at the end and returns True; so from an empty carbon_paths the
\* list never has duplicates and is in the order of insertion.
C20_AddCarbonPath ==
    /\ clast.op = "add_carbon_path" =>
           IF clast.path \in Range(clast.before) \/ ~PathExists(clast.path)
           THEN clast.result = FALSE /\ carbon = clast.before
           ELSE clast.result = TRUE /\ carbon = Append(clast.before, clast.path)
    /\ ~HasDuplicates(carbon)
    /\ carbon = clast.accepted

\* A path already in a carbon_paths of three was given again and refused.
C20_Witness ==
    /\ clast.op = "add_carbon_path"
    /\ Len(clast.before) = 3
    /\ clast.path \in Range(clast.before)
    /\ clast.result = FALSE
    /\ carbon = clast.before

(***************************************************************************)
(* Properties of the stored priority layers, continued (SpecPriority)      *)
(***************************************************************************)
\* C21: after save_priority_layer(layer), get_priority_layer(layer.uuid)
\* returns the name, the description and the selected flag of that save, and
\* its groups are exactly the groups of that save: no group of an earlier
\* save of the same uuid remains and no saved group is lost.
C21_SaveThenGetPriorityLayer ==
    plast.op = "save_priority_layer" =>
        LET saved == plast.layer
            got == GetPriorityLayer(settings, StrValue(saved.uuid))
        IN  /\ got.name = StrValue(saved.name)
            /\ got.description = StrValue(saved.description)
            /\ got.selected = saved.selected
            /\ {<<got.groups[i].name, got.groups[i].value>> : i \in DOMAIN got.groups}
                   = {<<StrValue(g.name), IntValue(g.value)>> : g \in Range(saved.groups)}

\* C22: a set_current_priority_layer(id) with id a stored priority layer
\* leaves the stored layer id with selected = true and every other stored
\* priority layer with selected = false.
C22_SetCurrentSelectsOne ==
    [][(/\ plast'.op = "set_current_priority_layer"
        /\ plast'.id \in StoredLayerIds(settings))
       => LET layers == GetPriorityLayers(settings') IN
          /\ \E i \in DOMAIN layers : layers[i].uuid = StrValue(plast'.id)
          /\ \A i \in DOMAIN layers :
                 layers[i].selected = (layers[i].uuid = StrValue(plast'.id))]_vars

====
